---- MODULE Spec2Model ----
(***************************************************************************)
(* A model of baseband's vlbi_base layer:                                  *)
(*   - VLBIPayloadBase (payload.py): the word buffer, the mapping of a     *)
(*     sample index or slice to a word slice and a data slice, and         *)
(*     __getitem__ / __setitem__ built on it;                              *)
(*   - VLBIStreamReaderBase._get_frame_rate (base.py): the header scan     *)
(*     that infers the frame rate;                                         *)
(*   - VLBIStreamReaderBase.seek / tell / size / stop_time (base.py);      *)
(*   - VLBIStreamWriterBase.close and VLBIFileBase.close (base.py);        *)
(*   - VLBIStreamBase.sample_shape and _unsqueeze (base.py);               *)
(*   - the open function made by make_opener (base.py);                    *)
(*   - VLBIStreamBase's sample_rate setter and _frame_info (base.py).      *)
(* Each part has its own specification (SpecPayload, SpecLayout,           *)
(* SpecCodec, SpecRate, SpecScan, SpecScanFair, SpecReader, SpecSize,      *)
(* SpecRaw, SpecClose, SpecShape, SpecOpener, SpecStream); the variables   *)
(* of the other parts stay at their idle value.                            *)
(***************************************************************************)
EXTENDS Integers, Sequences, FiniteSets, TLC

VARIABLES
    \* ---- payload (payload.py)
    p_cfg,        \* [bps, sample_shape, complex_data] given to __init__
    p_words,      \* self.words: a sequence of 32-bit words (bit 1 = lsb)
    p_pc,         \* "fresh" | "read" | "written" | "readback" | "idle"
    p_item,       \* the item of the last __getitem__ / __setitem__
    p_data,       \* the data handed to the last __setitem__
    p_before,     \* self.words as they were before the last __setitem__
    p_ret,        \* outcome of the last operation: [err, val]
    \* ---- frame-rate detection (base.py, _get_frame_rate)
    d_rate,       \* frames per second of the recording the file holds
    d_hdrs,       \* the headers of the file's frames: [frame_nr, seconds]
    d_pos,        \* fh's position, in bytes
    d_pc,         \* "start" | "loop1" | "loop2" | "done" | "failed" | "idle"
    d_oldpos,     \* oldpos
    d_frame_nr0,  \* frame_nr0
    d_sec0,       \* sec0
    d_header,     \* header: the last header read
    d_max_frame,  \* max_frame
    d_ret,        \* the rate returned, in Hz (0: nothing returned)
    d_warned,     \* whether warnings.warn was called
    d_reads,      \* headers read so far
    \* ---- stream reader (base.py, VLBIStreamReaderBase)
    r_sample_rate,   \* self.sample_rate, in Hz
    r_spf,           \* self.samples_per_frame
    r_start_time,    \* self.start_time, in ticks
    r_ngood,         \* frames of the file whose headers verify (from frame 0)
    r_ntrail,        \* frames after them whose headers do not verify
    r_raw,           \* fh_raw's position, in bytes
    r_offset,        \* self.offset
    r_last_header,   \* the cached _last_header: None or Some(frame index)
    r_stop_time,     \* the cached stop_time: None or Some(ticks)
    r_op,            \* the last seek: [kind, arg, whence, prev]
    r_ret,           \* its outcome: [err, val]
    r_told,          \* what tell() returned since: None or Some(offset)
    r_file_rate,     \* samples per second of the recording the file holds
    r_squeeze,       \* self.squeeze
    r_sizes,         \* the reads of size so far: [err, val, rate]
    r_stop_ret,      \* outcome of the last read of stop_time: None or [err, val]
    r_stop_rate,     \* self.sample_rate when stop_time was computed (0: not yet)
    \* ---- closing a stream (base.py, VLBIFileBase / VLBIStreamWriterBase)
    w_kind,          \* "reader" | "writer"
    w_spf,           \* self.samples_per_frame
    w_offset,        \* self.offset
    w_open,          \* whether fh_raw is open
    w_call,          \* the last close: [op, prev, raised]
    w_events,        \* what that close did, in order
    \* ---- sample shapes of a stream (base.py, VLBIStreamBase)
    h_shape,         \* self._sample_shape
    h_squeeze,       \* self._squeeze
    h_squeezed,      \* self._squeezed_shape: None or Some(shape)
    h_pc,            \* "fresh" | "shape" | "unsqueezed" | "idle"
    h_ret,           \* what sample_shape returned last
    h_data,          \* shape of the array given to _unsqueeze
    h_out,           \* shape of the array _unsqueeze returned
    \* ---- the opener (base.py, make_opener.open)
    o_name,          \* name: [kind, has_read, has_write]
    o_mode,          \* mode, as the letters it holds: [b, r, w]
    o_kwargs,        \* whether keyword arguments were given
    o_env,           \* what the call meets: [io_ok, ctor_ok]
    o_pc,            \* "fresh" | "done" | "idle"
    o_opened,        \* files open() has opened with io.open
    o_file_open,     \* whether such a file is open
    o_handle_closed, \* whether the caller's handle was closed
    o_ret,           \* outcome: [err, val], val the class constructed
    \* ---- a stream's sample rate and frame position (base.py, VLBIStreamBase)
    s_pc,            \* "new" | "made" | "failed" | "idle"
    s_sample_rate,   \* self._sample_rate: a quantity [value, unit]
    s_spf,           \* self.samples_per_frame
    s_frame_nr0,     \* self.header0['frame_nr']
    s_offset,        \* self.offset
    s_set,           \* the last assignment to sample_rate: None or [rate, prev, err]
    s_info           \* the last _frame_info(): None or its inputs and outcome

pvars == <<p_cfg, p_words, p_pc, p_item, p_data, p_before, p_ret>>

wvars == <<w_kind, w_spf, w_offset, w_open, w_call, w_events>>

rvars == <<r_sample_rate, r_spf, r_start_time, r_ngood, r_ntrail, r_raw,
           r_offset, r_last_header, r_stop_time, r_op, r_ret, r_told,
           r_file_rate, r_squeeze, r_sizes, r_stop_ret, r_stop_rate>>

hvars == <<h_shape, h_squeeze, h_squeezed, h_pc, h_ret, h_data, h_out>>

ovars == <<o_name, o_mode, o_kwargs, o_env, o_pc, o_opened, o_file_open,
           o_handle_closed, o_ret>>

svars == <<s_pc, s_sample_rate, s_spf, s_frame_nr0, s_offset, s_set, s_info>>

dvars == <<d_rate, d_hdrs, d_pos, d_pc, d_oldpos, d_frame_nr0, d_sec0,
           d_header, d_max_frame, d_ret, d_warned, d_reads>>

\* ------------------------------------------------------------------
\* Bounds of the model
\* ------------------------------------------------------------------
MaxWords == 2          \* a payload holds at most this many words
MaxRate == 4           \* a recording has at most this many frames per second
MaxFrames == 6         \* a file holds at most this many frames
HeaderBytes == 2       \* bytes of a frame header
PayloadBytes == 3      \* header.payloadsize
MaxGood == 2           \* a reader's file has at most this many good frames
MaxSeek == 3           \* seek is called with at most this many samples
MaxTicks == 12         \* and with times at most this many ticks from start
MaxOffset == 6         \* calls that take the offset further are left out
MaxSpf == 3            \* a writer's frames hold at most this many samples
MaxWritten == 9         \* a writer is given at most this many samples
MaxLayoutWords == 3    \* payloads of other layouts hold at most this many words
MaxReads == 3          \* reads of size that are followed
MaxRank == 3           \* a sample shape has at most this many dimensions
MaxDim == 3            \* each of at most this size
MaxNr == 3             \* frame numbers of the header streams scanned
MaxScan == 5           \* and their length
MaxN == 2              \* arrays given to _unsqueeze hold at most this many samples

\* ------------------------------------------------------------------
\* Small helpers
\* ------------------------------------------------------------------
Min(a, b) == IF a < b THEN a ELSE b
Max(a, b) == IF a > b THEN a ELSE b

RECURSIVE Pow2(_)
Pow2(n) == IF n = 0 THEN 1 ELSE 2 * Pow2(n - 1)

RECURSIVE Prod(_)
Prod(s) == IF s = <<>> THEN 1 ELSE Head(s) * Prod(Tail(s))

\* a sequence given as a function of its index, evaluated once
Tuple(f) == SubSeq(f, 1, Len(f))

\* Python's None and an optional value
None == <<>>
Some(v) == <<v>>

\* the sequences over S of length at most n
RECURSIVE SeqsUpTo(_, _)
SeqsUpTo(S, n) ==
    IF n = 0 THEN {<<>>}
    ELSE LET shorter == SeqsUpTo(S, n - 1)
         IN  shorter \cup {Append(q, x) : q \in shorter, x \in S}

\* ------------------------------------------------------------------
\* Python slices: slice(start, stop, step), slice.indices, seq[slice]
\* ------------------------------------------------------------------
Slice(a, b, c) == [start |-> a, stop |-> b, step |-> c]

SliceNone == Slice(None, None, None)

\* slice.indices(len) for a non-zero step, as CPython's PySlice_AdjustIndices
SliceIndices(s, len) ==
    LET step == IF s.step = None THEN 1 ELSE s.step[1]
        lower == IF step < 0 THEN -1 ELSE 0
        upper == IF step < 0 THEN len - 1 ELSE len
        Adj(x, dflt) == IF x = None THEN dflt
                        ELSE IF x[1] < 0 THEN Max(x[1] + len, lower)
                        ELSE Min(x[1], upper)
    IN  [start |-> Adj(s.start, IF step < 0 THEN upper ELSE lower),
         stop  |-> Adj(s.stop, IF step < 0 THEN lower ELSE upper),
         step  |-> step]

\* the 0-based indices range(*s.indices(len)) selects, in order
SliceRange(s, len) ==
    LET i == SliceIndices(s, len)
        count == IF i.step > 0
                 THEN (IF i.stop > i.start
                       THEN (i.stop - i.start - 1) \div i.step + 1 ELSE 0)
                 ELSE (IF i.stop < i.start
                       THEN (i.start - i.stop - 1) \div (0 - i.step) + 1 ELSE 0)
    IN  Tuple([k \in 1..count |-> i.start + (k - 1) * i.step])

\* seq[s] for a Python slice s
PyGetSlice(seq, s) ==
    LET r == SliceRange(s, Len(seq))
    IN  Tuple([k \in 1..Len(r) |-> seq[r[k] + 1]])

\* ------------------------------------------------------------------
\* The codec (format subclasses' _decoders / _encoders)
\* ------------------------------------------------------------------
BitsPerWord == 32

\* bps values with an entry in _decoders and _encoders
CodecBps == {2, 4, 8, 16}

\* value of the n bits of word w that start at 0-based bit lo, lsb first
RECURSIVE BitsValue(_, _, _)
BitsValue(w, lo, n) ==
    IF n = 0 THEN 0 ELSE w[lo + 1] + 2 * BitsValue(w, lo + 1, n - 1)

\* a bps-bit code, read as one of 2^bps levels ..., -3, -1, 1, 3, ...
Level(code, bps) == 2 * code - (Pow2(bps) - 1)

Code(level, bps) == (level + Pow2(bps) - 1) \div 2

\* decoder(words): the flat array of real components
Decoder(words, bps) ==
    LET cpw == BitsPerWord \div bps
    IN  Tuple([j \in 1..(Len(words) * cpw) |->
            Level(BitsValue(words[(j - 1) \div cpw + 1],
                            ((j - 1) % cpw) * bps, bps), bps)])

\* encoder(data).ravel().view('<u4'): the words of a flat array of components
Encoder(flat, bps) ==
    LET cpw == BitsPerWord \div bps
    IN  Tuple([w \in 1..(Len(flat) \div cpw) |->
            Tuple([i \in 1..BitsPerWord |->
                (Code(flat[(w - 1) * cpw + (i - 1) \div bps + 1], bps)
                    \div Pow2((i - 1) % bps)) % 2])])

\* flat.reshape(-1, *sample_shape) (after the complex view): a sequence of
\* samples, each the sequence of its ncomp real components
Reshape(flat, ncomp) ==
    Tuple([i \in 1..(Len(flat) \div ncomp) |->
        Tuple([c \in 1..ncomp |-> flat[(i - 1) * ncomp + c]])])

\* data.view((real, (2,))) and ravel: the flat components of a sample array
Flatten(samples, ncomp) ==
    Tuple([j \in 1..(Len(samples) * ncomp) |->
        samples[(j - 1) \div ncomp + 1][((j - 1) % ncomp) + 1]])

\* ------------------------------------------------------------------
\* VLBIPayloadBase
\* ------------------------------------------------------------------
\* _bpfs without the size of the sample shape
BpfsOfOneComponent(cfg) ==
    cfg.bps * (IF cfg.complex_data THEN 2 ELSE 1)

\* __init__: self._bpfs
Bpfs(cfg) ==
    cfg.bps * (IF cfg.complex_data THEN 2 ELSE 1) * Prod(cfg.sample_shape)

\* real components per full sample
NComp(cfg) == Bpfs(cfg) \div cfg.bps

\* size: bytes in the payload
PayloadSize(words) == Len(words) * (BitsPerWord \div 8)

Nsample(cfg, words) == (PayloadSize(words) * 8) \div Bpfs(cfg)

IntItem(i) == [kind |-> "int", i |-> i]
SliceItem(s) == [kind |-> "slice", s |-> s]
EmptyTupleItem == [kind |-> "()"]

DataSlice(s) == [isint |-> FALSE, i |-> 0, s |-> s]
DataIndex(i) == [isint |-> TRUE, i |-> i, s |-> SliceNone]

ItemOk(ws, ds) == [err |-> "ok", ws |-> ws, ds |-> ds]
ItemErr(e) == [err |-> e, ws |-> SliceNone, ds |-> DataSlice(SliceNone)]

\* the words up to the one that holds sample stop, that one left out
SubWordWordsSliceNoPartial(w_start, w_stop, o_stop) ==
    Slice(Some(w_start), Some(w_stop), None)

\* _item_to_slices, several samples per word: the words that hold samples
\* start..stop-1
SubWordWordsSlice(w_start, w_stop, o_stop) ==
    Slice(Some(w_start), Some(IF o_stop # 0 THEN w_stop + 1 ELSE w_stop), None)

\* the data slice taken as if every data slice began at the word's first sample
SubWordDataSliceNoOffset(o_start, o_stop, n, step) ==
    Slice(IF o_start # 0 THEN Some(o_start) ELSE None,
          IF o_stop # 0 THEN Some(n) ELSE None,
          step)

\* _item_to_slices, several samples per word: where the samples are in the
\* decoded words
SubWordDataSlice(o_start, o_stop, n, step) ==
    Slice(IF o_start # 0 THEN Some(o_start) ELSE None,
          IF o_stop # 0 THEN Some(o_start + n) ELSE None,
          step)

\* _item_to_slices for an int or a slice (a slice's step is not 0)
ItemToSlices(cfg, words, item) ==
    LET nsample == Nsample(cfg, words)
        is_slice == item.kind = "slice"
        idx == IF is_slice THEN SliceIndices(item.s, nsample)
               ELSE [start |-> 0, stop |-> 0, step |-> 1]
        it == IF is_slice THEN 0
              ELSE IF item.i < 0 THEN item.i + nsample ELSE item.i
        start == IF is_slice THEN idx.start ELSE it
        stop == IF is_slice THEN idx.stop ELSE it + 1
        step == IF is_slice
                THEN (IF idx.step = 1 THEN None ELSE Some(idx.step))
                ELSE Some(1)
        n == IF is_slice THEN stop - start ELSE 1
        bpw == BitsPerWord
        bpfs == Bpfs(cfg)
        wpfs == bpfs \div bpw
        fspw == bpw \div bpfs
        w_start == start \div fspw
        o_start == start % fspw
        w_stop == stop \div fspw
        o_stop == stop % fspw
    IN  IF ~is_slice /\ ~(0 <= it /\ it < nsample) THEN ItemErr("IndexError")
        ELSE IF n = nsample
        THEN ItemOk(SliceNone,
                    IF is_slice THEN DataSlice(Slice(None, None, step))
                    ELSE DataIndex(0))
        ELSE IF bpfs % bpw = 0
        THEN ItemOk(Slice(Some(start * wpfs), Some(stop * wpfs), None),
                    IF is_slice THEN DataSlice(Slice(None, None, step))
                    ELSE DataIndex(0))
        ELSE IF bpw % bpfs = 0
        THEN ItemOk(SubWordWordsSlice(w_start, w_stop, o_stop),
                    IF is_slice
                    THEN DataSlice(SubWordDataSlice(o_start, o_stop, n, step))
                    ELSE DataIndex(o_start))
        ELSE ItemErr("TypeError")

Ret(e, v) == [err |-> e, val |-> v]

\* arr[ds] for a data slice or data index
ApplyDataSlice(arr, ds) ==
    IF ds.isint
    THEN (IF ds.i < Len(arr) THEN Ret("ok", arr[ds.i + 1])
          ELSE Ret("IndexError", <<>>))
    ELSE Ret("ok", PyGetSlice(arr, ds.s))

IsWholeItem(item) ==
    \/ item.kind = "()"
    \/ item.kind = "slice" /\ item.s = SliceNone

\* decoder(words).reshape(shape): the whole payload decoded
DecodeAll(cfg, words) == Reshape(Decoder(words, cfg.bps), NComp(cfg))

\* __getitem__
GetItem(cfg, words, item) ==
    IF cfg.bps \notin CodecBps THEN Ret("KeyError", <<>>)
    ELSE IF IsWholeItem(item)
    THEN (IF (Len(words) * BitsPerWord) % Bpfs(cfg) = 0
          THEN Ret("ok", DecodeAll(cfg, words))
          ELSE Ret("ValueError", <<>>))
    ELSE LET sl == ItemToSlices(cfg, words, item)
         IN  IF sl.err # "ok" THEN Ret(sl.err, <<>>)
             ELSE LET ds == PyGetSlice(words, sl.ws)
                  IN  IF (Len(ds) * BitsPerWord) % Bpfs(cfg) # 0
                      THEN Ret("ValueError", <<>>)
                      ELSE ApplyDataSlice(
                              Reshape(Decoder(ds, cfg.bps), NComp(cfg)),
                              sl.ds)

\* the data argument of __setitem__: an array of shape `shape` holding the
\* samples `samples` (of the payload's own dtype kind)
Data(shape, samples) == [shape |-> shape, samples |-> samples]

\* data.shape[-len(sample_shape):]; x[-0:] is the whole of x
ShapeTail(shape, k) ==
    IF k = 0 \/ k >= Len(shape) THEN shape
    ELSE SubSeq(shape, Len(shape) - k + 1, Len(shape))

\* arr[idxs] = vals with numpy's broadcasting of one value; idxs are 0-based
AssignAt(arr, idxs, vals) ==
    IF Len(vals) = Len(idxs)
    THEN Ret("ok", Tuple([k \in 1..Len(arr) |->
            IF \E j \in 1..Len(idxs) : idxs[j] + 1 = k
            THEN vals[CHOOSE j \in 1..Len(idxs) : idxs[j] + 1 = k]
            ELSE arr[k]]))
    ELSE IF Len(vals) = 1
    THEN Ret("ok", Tuple([k \in 1..Len(arr) |->
            IF \E j \in 1..Len(idxs) : idxs[j] + 1 = k THEN vals[1]
            ELSE arr[k]]))
    ELSE Ret("ValueError", arr)

\* current_data[data_slice] = data
AssignData(current, ds, data) ==
    IF ds.isint
    THEN (IF ds.i >= Len(current) THEN Ret("IndexError", current)
          ELSE AssignAt(current, <<ds.i>>, data.samples))
    ELSE AssignAt(current, SliceRange(ds.s, Len(current)), data.samples)

\* the skip-decode condition without its test of the data slice
SkipDecodeShapeOnly(cfg, ds, data) ==
    /\ ~ds.isint
    /\ ShapeTail(data.shape, Len(cfg.sample_shape)) = cfg.sample_shape

\* the condition under which __setitem__ encodes data without decoding
SkipDecode(cfg, ds, data) ==
    /\ ~ds.isint
    /\ ds.s = SliceNone
    /\ ShapeTail(data.shape, Len(cfg.sample_shape)) = cfg.sample_shape

\* self.words[words_slice] = encoder(samples).ravel().view('<u4')
EncodeInto(cfg, words, ws, samples) ==
    LET flat == Flatten(samples, NComp(cfg))
        cpw == BitsPerWord \div cfg.bps
    IN  IF Len(flat) % cpw # 0 THEN Ret("ValueError", words)
        ELSE AssignAt(words, SliceRange(ws, Len(words)),
                      Encoder(flat, cfg.bps))

\* __setitem__: [err, val], val the words afterwards
SetItem(cfg, words, item, data) ==
    LET sl == IF IsWholeItem(item)
              THEN ItemOk(SliceNone, DataSlice(SliceNone))
              ELSE ItemToSlices(cfg, words, item)
    IN  IF sl.err # "ok" THEN Ret(sl.err, words)
        ELSE IF SkipDecode(cfg, sl.ds, data)
        THEN (IF cfg.bps \notin CodecBps THEN Ret("KeyError", words)
              ELSE EncodeInto(cfg, words, sl.ws, data.samples))
        ELSE IF cfg.bps \notin CodecBps THEN Ret("KeyError", words)
        ELSE LET part == PyGetSlice(words, sl.ws)
             IN  IF (Len(part) * BitsPerWord) % Bpfs(cfg) # 0
                 THEN Ret("ValueError", words)
                 ELSE LET current == Reshape(Decoder(part, cfg.bps), NComp(cfg))
                          upd == AssignData(current, sl.ds, data)
                      IN  IF upd.err # "ok" THEN Ret(upd.err, words)
                          ELSE EncodeInto(cfg, words, sl.ws, upd.val)

\* fromdata(data, bps) for data of cfg's sample shape and kind: [err, val],
\* val the words of the payload made
FromData(cfg, samples) ==
    IF cfg.bps \notin CodecBps THEN Ret("ValueError(bps)", <<>>)
    ELSE LET flat == Flatten(samples, NComp(cfg))
         IN  IF (Len(flat) * cfg.bps) % BitsPerWord # 0
             THEN Ret("ValueError", <<>>)
             ELSE Ret("ok", Encoder(flat, cfg.bps))

\* ------------------------------------------------------------------
\* The payload as a state machine: a payload is constructed, then indexed
\* ------------------------------------------------------------------
\* (bps, sample_shape, complex_data) of the payloads constructed: 4, 2 and 1
\* full samples per word, and 2 words per full sample
PayloadConfigs ==
    { [bps |-> 8,  sample_shape |-> <<>>,     complex_data |-> FALSE],
      [bps |-> 4,  sample_shape |-> <<2>>,    complex_data |-> TRUE],
      [bps |-> 16, sample_shape |-> <<2>>,    complex_data |-> FALSE],
      [bps |-> 16, sample_shape |-> <<2, 1>>, complex_data |-> TRUE] }

WordSeeds == {0, 1}

\* word k of the buffer read from file number `seed`
FileWord(k, seed) ==
    Tuple([i \in 1..BitsPerWord |->
        (((i + 2 * k) * (i + seed + k) + seed) \div 3 + (i \div 5)) % 2])

FileWords(n, seed) == Tuple([k \in 1..n |-> FileWord(k, seed)])

DataPatterns == {0, 1}

\* sample number i (1-based) of the data pattern v
PatternSample(cfg, i, v) ==
    Tuple([c \in 1..NComp(cfg) |->
        Level((5 * i + 3 * c + 7 * v) % Pow2(cfg.bps), cfg.bps)])

Opt(S) == {None} \cup {Some(x) : x \in S}

Steps == {None, Some(1), Some(2), Some(-1)}

Items(n) ==
    {EmptyTupleItem}
    \cup {IntItem(i) : i \in (0 - n - 1)..n}
    \cup {SliceItem(Slice(a, b, c)) :
            a \in Opt((0 - n - 1)..(n + 1)),
            b \in Opt((0 - n - 1)..(n + 1)), c \in Steps}

\* the number of samples Python's indexing addresses with item
ItemCount(item, n) ==
    IF item.kind = "()" THEN n
    ELSE IF item.kind = "int" THEN 1
    ELSE Len(SliceRange(item.s, n))

\* data of the shape that payload[item] has, filled with pattern v
ItemData(cfg, item, n, v) ==
    Data((IF item.kind = "int" THEN <<>> ELSE <<ItemCount(item, n)>>)
            \o cfg.sample_shape,
         Tuple([i \in 1..ItemCount(item, n) |-> PatternSample(cfg, i, v)]))

PayloadIdle ==
    /\ p_cfg = [bps |-> 8, sample_shape |-> <<>>, complex_data |-> FALSE]
    /\ p_words = <<>>
    /\ p_pc = "idle"
    /\ p_item = EmptyTupleItem
    /\ p_data = Data(<<>>, <<>>)
    /\ p_before = <<>>
    /\ p_ret = Ret("ok", <<>>)

\* fromfile / __init__: a buffer holding a whole number of samples
PayloadInit ==
    /\ p_cfg \in PayloadConfigs
    /\ \E n \in 1..MaxWords, seed \in WordSeeds :
          /\ (n * BitsPerWord) % Bpfs(p_cfg) = 0
          /\ p_words = FileWords(n, seed)
    /\ p_pc = "fresh"
    /\ p_item = EmptyTupleItem
    /\ p_data = Data(<<>>, <<>>)
    /\ p_before = <<>>
    /\ p_ret = Ret("ok", <<>>)

\* (bps, sample_shape, complex_data) of payloads whose full samples have 24
\* and 48 bits
LayoutConfigs ==
    { [bps |-> 8,  sample_shape |-> <<3>>, complex_data |-> FALSE],
      [bps |-> 16, sample_shape |-> <<3>>, complex_data |-> FALSE] }

\* fromfile / __init__ of such a payload: _size is None, any number of words
\* is taken
LayoutInit ==
    /\ p_cfg \in LayoutConfigs
    /\ \E n \in 1..MaxLayoutWords, seed \in WordSeeds :
          p_words = FileWords(n, seed)
    /\ p_pc = "fresh"
    /\ p_item = EmptyTupleItem
    /\ p_data = Data(<<>>, <<>>)
    /\ p_before = <<>>
    /\ p_ret = Ret("ok", <<>>)

\* payload[item], on a new payload or to read back what was just written
PayloadGet(item) ==
    /\ \/ p_pc = "fresh"
       \/ p_pc = "written" /\ item = p_item
    /\ p_ret' = GetItem(p_cfg, p_words, item)
    /\ p_item' = item
    /\ p_pc' = IF p_pc = "fresh" THEN "read" ELSE "readback"
    /\ UNCHANGED <<p_cfg, p_words, p_data, p_before>>
    /\ UNCHANGED <<dvars, rvars, wvars, hvars, ovars, svars>>

\* payload[item] = data
PayloadSet(item, data) ==
    /\ p_pc = "fresh"
    /\ LET r == SetItem(p_cfg, p_words, item, data)
       IN  /\ p_words' = r.val
           /\ p_ret' = Ret(r.err, <<>>)
    /\ p_before' = p_words
    /\ p_item' = item
    /\ p_data' = data
    /\ p_pc' = "written"
    /\ UNCHANGED p_cfg
    /\ UNCHANGED <<dvars, rvars, wvars, hvars, ovars, svars>>

PayloadNext ==
    \/ /\ p_pc = "fresh"
       /\ \E item \in Items(Nsample(p_cfg, p_words)) : PayloadGet(item)
    \/ /\ p_pc = "written"
       /\ PayloadGet(p_item)
    \/ /\ p_pc = "fresh"
       /\ \E item \in Items(Nsample(p_cfg, p_words)), v \in DataPatterns :
             PayloadSet(item,
                        ItemData(p_cfg, item, Nsample(p_cfg, p_words), v))

\* (bps, sample_shape, complex_data) with a bps the codec table lacks, and
\* with one it has
CodecConfigs ==
    { [bps |-> 1, sample_shape |-> <<8>>, complex_data |-> FALSE],
      [bps |-> 8, sample_shape |-> <<>>,  complex_data |-> FALSE] }

\* before a payload is made
CodecInit ==
    /\ p_cfg = [bps |-> 8, sample_shape |-> <<>>, complex_data |-> FALSE]
    /\ p_words = <<>>
    /\ p_pc = "new"
    /\ p_item = EmptyTupleItem
    /\ p_data = Data(<<>>, <<>>)
    /\ p_before = <<>>
    /\ p_ret = Ret("ok", <<>>)

\* cls(words, bps=..., sample_shape=..., complex_data=...), as fromfile does
PayloadConstruct(cfg, n, seed) ==
    /\ p_pc = "new"
    /\ p_cfg' = cfg
    /\ p_words' = FileWords(n, seed)
    /\ p_pc' = "fresh"
    /\ UNCHANGED <<p_item, p_data, p_before, p_ret>>
    /\ UNCHANGED <<dvars, rvars, wvars, hvars, ovars, svars>>

\* cls.fromdata(data, bps) with n samples of pattern v
PayloadFromData(cfg, n, v) ==
    LET samples == Tuple([i \in 1..n |-> PatternSample(cfg, i, v)])
        r == FromData(cfg, samples)
    IN  /\ p_pc = "new"
        /\ p_cfg' = cfg
        /\ p_data' = Data(<<n>> \o cfg.sample_shape, samples)
        /\ p_ret' = Ret(r.err, <<>>)
        /\ p_words' = r.val
        /\ p_pc' = IF r.err = "ok" THEN "fresh" ELSE "rejected"
        /\ UNCHANGED <<p_item, p_before>>
        /\ UNCHANGED <<dvars, rvars, wvars, hvars, ovars, svars>>

CodecNext ==
    \/ \E cfg \in CodecConfigs, n \in 1..MaxWords, seed \in WordSeeds :
           PayloadConstruct(cfg, n, seed)
    \/ \E cfg \in CodecConfigs, n \in 1..(4 * MaxWords), v \in DataPatterns :
           PayloadFromData(cfg, n, v)
    \/ PayloadNext

\* ------------------------------------------------------------------
\* Claims about the payload
\* ------------------------------------------------------------------
BpfsFitsWords(cfg) ==
    Bpfs(cfg) % BitsPerWord = 0 \/ BitsPerWord % Bpfs(cfg) = 0

IsStep1Slice(item) ==
    item.kind = "slice" /\ item.s.step \in {None, Some(1)}

\* C1: payload[a:b] with step 1 is exactly decode_all()[a:b], for every
\* payload whose bits per full sample divide or are a multiple of the word
\* width, empty ranges included
C1_SliceGetIsFullDecodeSlice ==
    (p_pc = "read" /\ IsStep1Slice(p_item) /\ BpfsFitsWords(p_cfg))
        => p_ret = Ret("ok", PyGetSlice(DecodeAll(p_cfg, p_words), p_item.s))

\* a slice that starts and ends inside words was read and gave samples
C1_Witness ==
    /\ p_pc = "read"
    /\ IsStep1Slice(p_item)
    /\ p_item.s.start = Some(1)
    /\ p_item.s.stop = Some(7)
    /\ BitsPerWord \div Bpfs(p_cfg) = 4
    /\ p_ret.err = "ok"
    /\ Len(p_ret.val) = 6

\* C2: after payload[a:b] = values (step 1), payload[a:b] reads back the
\* values and every sample outside [a, b) decodes as before the write
C2_PartialWriteKeepsRest ==
    (p_pc \in {"written", "readback"} /\ IsStep1Slice(p_item))
        => LET n == Nsample(p_cfg, p_before)
               r == SliceRange(p_item.s, n)
               now == DecodeAll(p_cfg, p_words)
               was == DecodeAll(p_cfg, p_before)
           IN  /\ p_ret.err = "ok"
               /\ Len(now) = n
               /\ \A k \in 1..Len(r) : now[r[k] + 1] = p_data.samples[k]
               /\ \A i \in 1..n :
                     (\A k \in 1..Len(r) : r[k] + 1 # i) => now[i] = was[i]
               /\ p_pc = "readback" => p_ret.val = p_data.samples

\* a write that starts and ends inside words changed the payload and was
\* read back
C2_Witness ==
    /\ p_pc = "readback"
    /\ IsStep1Slice(p_item)
    /\ p_item.s.start = Some(1)
    /\ p_item.s.stop = Some(6)
    /\ BitsPerWord \div Bpfs(p_cfg) = 4
    /\ p_words # p_before
    /\ Len(p_ret.val) = 5

IsNegativeStepSlice(item) ==
    /\ item.kind = "slice"
    /\ item.s.step # None
    /\ item.s.step[1] < 0

\* C15: payload[a:b:c] and payload[a:b:c] = data with c < 0 fail with an
\* error: nothing is returned and no word of the buffer changes
C15_NegativeStepFails ==
    /\ (p_pc = "read" /\ IsNegativeStepSlice(p_item)) => p_ret.err # "ok"
    /\ (p_pc = "written" /\ IsNegativeStepSlice(p_item))
          => (p_ret.err # "ok" /\ p_words = p_before)

\* the number of samples _item_to_slices takes item to span (n), for an int
\* in range or a slice
ItemSpan(item, nsample) ==
    IF item.kind = "int" THEN 1
    ELSE SliceIndices(item.s, nsample).stop - SliceIndices(item.s, nsample).start

IntInRange(item, nsample) ==
    item.kind = "int" /\ 0 - nsample <= item.i /\ item.i < nsample

\* an int in range or a slice that spans all samples, or fewer
SpansAll(item, nsample) ==
    /\ IntInRange(item, nsample) \/ item.kind = "slice"
    /\ ItemSpan(item, nsample) = nsample

SpansPart(item, nsample) ==
    /\ IntInRange(item, nsample) \/ item.kind = "slice"
    /\ ItemSpan(item, nsample) # nsample

Accessed == p_pc \in {"read", "written"}

\* bits of a full sample: bps for each real component of each element
FullSampleBits(cfg) ==
    IF cfg.complex_data THEN 2 * cfg.bps * Prod(cfg.sample_shape)
    ELSE cfg.bps * Prod(cfg.sample_shape)

\* they neither divide the 32 bits of a word nor are a multiple of them
OddLayout(cfg) ==
    32 % FullSampleBits(cfg) # 0 /\ FullSampleBits(cfg) % 32 # 0

\* C16 as stated: a payload whose bits per full sample neither divide 32 nor
\* are a multiple of it was constructed, and then every access fails with
\* TypeError (an int out of range with IndexError)
C16_UnsupportedLayoutFails ==
    (Accessed /\ OddLayout(p_cfg))
        => \/ p_ret.err = "TypeError"
           \/ p_item.kind = "int" /\ p_ret.err = "IndexError"

\* C16, amended: on such a payload, get and set of an int in range or a
\* slice that spans fewer or more samples than the payload holds fail with
\* TypeError and leave the words as they are; construction, and access to
\* the whole payload ((), [:], or an int or slice that spans all samples)
\* never raise TypeError
C16_PartialAccessFails ==
    (Accessed /\ OddLayout(p_cfg))
        => LET nsample == (Len(p_words) * 32) \div FullSampleBits(p_cfg)
           IN  /\ SpansPart(p_item, nsample)
                     => /\ p_ret.err = "TypeError"
                        /\ p_pc = "written" => p_words = p_before
               /\ (IsWholeItem(p_item) \/ SpansAll(p_item, nsample))
                     => p_ret.err # "TypeError"

\* a slice of 2 of the 4 samples of 24 bits in 3 words was assigned
C16_Witness ==
    /\ p_pc = "written"
    /\ Bpfs(p_cfg) = 24
    /\ Len(p_words) = 3
    /\ p_item = SliceItem(Slice(Some(1), Some(3), None))
    /\ p_ret.err = "TypeError"
    /\ p_words = p_before

\* C18: for an int i with -N <= i < N, payload[i] is sample i mod N of the
\* whole payload decoded; for any other int, get and set fail with
\* IndexError and set leaves the words as they are
C18_IntIndex ==
    LET N == (Len(p_words) * 32) \div FullSampleBits(p_cfg)
    IN  /\ (p_pc = "read" /\ p_item.kind = "int")
              => IF 0 - N <= p_item.i /\ p_item.i < N
                 THEN p_ret = Ret("ok", DecodeAll(p_cfg, p_words)
                                            [(p_item.i % N) + 1])
                 ELSE p_ret = Ret("IndexError", <<>>)
        /\ (p_pc = "written" /\ p_item.kind = "int"
                /\ ~(0 - N <= p_item.i /\ p_item.i < N))
              => (p_ret.err = "IndexError" /\ p_words = p_before)

\* the last but one of 8 samples, 4 to a word, was read with index -2
C18_Witness ==
    /\ p_pc = "read"
    /\ p_item = IntItem(0 - 2)
    /\ FullSampleBits(p_cfg) = 8
    /\ Len(p_words) = 2
    /\ p_ret = Ret("ok", DecodeAll(p_cfg, p_words)[7])

\* the samples item asks for, 0-based
Requested(item, nsample) ==
    IF item.kind = "int" THEN {item.i % nsample}
    ELSE {SliceRange(item.s, nsample)[k] :
             k \in 1..Len(SliceRange(item.s, nsample))}

\* the words, 0-based, that hold bits of sample i
WordsOfSample(cfg, i) ==
    {w \in 0..MaxWords :
        /\ w * 32 < (i + 1) * FullSampleBits(cfg)
        /\ (w + 1) * 32 > i * FullSampleBits(cfg)}

\* the smallest contiguous range of words that holds the samples of S
SmallestWordRange(cfg, S) ==
    LET ws == UNION {WordsOfSample(cfg, i) : i \in S}
    IN  {w \in 0..MaxWords :
            /\ \E lo \in ws : lo <= w
            /\ \E hi \in ws : w <= hi}

\* the words, 0-based, that words[words_slice] takes for the last item
WordsTaken ==
    LET ws == ItemToSlices(p_cfg, p_words, p_item).ws
    IN  {SliceRange(ws, Len(p_words))[k] :
            k \in 1..Len(SliceRange(ws, Len(p_words)))}

\* C20: for an int or a slice that _item_to_slices accepts (here: of a step
\* that is not negative), words_slice takes exactly the smallest contiguous
\* range of words holding the samples asked for, and no word when no sample
\* is asked for
C20_SmallestWordSlice ==
    (/\ p_pc = "read"
     /\ p_item.kind \in {"int", "slice"}
     /\ ~IsNegativeStepSlice(p_item)
     /\ ItemToSlices(p_cfg, p_words, p_item).err = "ok")
        => WordsTaken
              = SmallestWordRange(p_cfg,
                    Requested(p_item, Nsample(p_cfg, p_words)))

\* the last call looked up an encoder or a decoder: fromdata and __getitem__
\* do so first; __setitem__ after _item_to_slices has accepted the item
LookedUpCodec ==
    \/ p_pc \in {"rejected", "read"}
    \/ p_pc = "written" /\ p_ret.err \notin {"IndexError", "TypeError"}

\* C17: with a bps that is not in the codec table, fromdata, __getitem__ and
\* __setitem__ fail with the error that names the bps and the type
\* (fromdata's ValueError)
C17_UnsupportedBpsFails ==
    (p_cfg.bps \notin {2, 4, 8, 16} /\ LookedUpCodec)
        => p_ret.err = "ValueError(bps)"

\* ------------------------------------------------------------------
\* VLBIStreamReaderBase._get_frame_rate
\* ------------------------------------------------------------------
FrameBytes == HeaderBytes + PayloadBytes

FileBytes(hdrs) == Len(hdrs) * FrameBytes

Header(nr, sec) == [frame_nr |-> nr, seconds |-> sec]

NoHeader == Header(0 - 1, 0 - 1)

\* header_template.fromfile(fh) with fh at byte pos of a whole-frame file:
\* the header of the frame that starts there, or EOFError at the file's end
HeaderFromFile(hdrs, pos) ==
    IF pos + HeaderBytes > FileBytes(hdrs)
    THEN [err |-> "EOFError", header |-> NoHeader, pos |-> FileBytes(hdrs)]
    ELSE [err |-> "ok", header |-> hdrs[pos \div FrameBytes + 1],
          pos |-> pos + HeaderBytes]

\* the headers of n frames recorded at rate frames per second, the first
\* with frame number first in second sec
Recording(rate, first, sec, n) ==
    Tuple([i \in 1..n |-> Header((first + i - 1) % rate,
                                 sec + (first + i - 1) \div rate)])

RateIdle ==
    /\ d_rate = 1
    /\ d_hdrs = <<>>
    /\ d_pos = 0
    /\ d_pc = "idle"
    /\ d_oldpos = 0
    /\ d_frame_nr0 = 0
    /\ d_sec0 = 0
    /\ d_header = NoHeader
    /\ d_max_frame = 0
    /\ d_ret = 0
    /\ d_warned = FALSE
    /\ d_reads = 0

\* a file of whole frames, fh at the start of one of them (or at the end)
RateInit ==
    /\ d_rate \in 1..MaxRate
    /\ \E first \in 0..(d_rate - 1), n \in 0..MaxFrames :
          d_hdrs = Recording(d_rate, first, 0, n)
    /\ \E f \in 0..Len(d_hdrs) : d_pos = f * FrameBytes
    /\ d_pc = "start"
    /\ d_oldpos = 0
    /\ d_frame_nr0 = 0
    /\ d_sec0 = 0
    /\ d_header = NoHeader
    /\ d_max_frame = 0
    /\ d_ret = 0
    /\ d_warned = FALSE
    /\ d_reads = 0

\* header = header_template.fromfile(fh), from position pos; an EOFError
\* leaves _get_frame_rate
ReadHeader(pos, next_pc) ==
    LET r == HeaderFromFile(d_hdrs, pos)
    IN  /\ d_pos' = r.pos
        /\ d_header' = r.header
        /\ d_pc' = IF r.err = "ok" THEN next_pc ELSE "failed"
        /\ d_reads' = IF r.err = "ok" THEN d_reads + 1 ELSE d_reads

\* lines 280-283: oldpos = fh.tell() and the first header
RateStart ==
    /\ d_pc = "start"
    /\ d_oldpos' = d_pos
    /\ ReadHeader(d_pos, "loop1")
    /\ LET r == HeaderFromFile(d_hdrs, d_pos)
       IN  /\ d_frame_nr0' = IF r.err = "ok" THEN r.header.frame_nr
                             ELSE d_frame_nr0
           /\ d_sec0' = IF r.err = "ok" THEN r.header.seconds ELSE d_sec0
    /\ UNCHANGED <<d_rate, d_hdrs, d_max_frame, d_ret, d_warned>>
    /\ UNCHANGED <<pvars, rvars, wvars, hvars, ovars, svars>>

\* the first loop looking at the same header again
RateLoop1Peek ==
    /\ d_pc = "loop1"
    /\ d_header.frame_nr = d_frame_nr0
    /\ UNCHANGED dvars
    /\ UNCHANGED <<pvars, rvars, wvars, hvars, ovars, svars>>

\* lines 284-286: one pass of the first loop
RateLoop1 ==
    /\ d_pc = "loop1"
    /\ d_header.frame_nr = d_frame_nr0
    /\ ReadHeader(d_pos + PayloadBytes, "loop1")
    /\ UNCHANGED <<d_rate, d_hdrs, d_oldpos, d_frame_nr0, d_sec0,
                   d_max_frame, d_ret, d_warned>>
    /\ UNCHANGED <<pvars, rvars, wvars, hvars, ovars, svars>>

\* the first loop ends, max_frame starting at 0
RateLoop1ExitMaxZero ==
    /\ d_pc = "loop1"
    /\ d_header.frame_nr # d_frame_nr0
    /\ d_max_frame' = 0
    /\ d_pc' = "loop2"
    /\ UNCHANGED <<d_rate, d_hdrs, d_pos, d_oldpos, d_frame_nr0, d_sec0,
                   d_header, d_ret, d_warned, d_reads>>
    /\ UNCHANGED <<pvars, rvars, wvars, hvars, ovars, svars>>

\* line 287: the first loop ends
RateLoop1Exit ==
    /\ d_pc = "loop1"
    /\ d_header.frame_nr # d_frame_nr0
    /\ d_max_frame' = d_frame_nr0
    /\ d_pc' = "loop2"
    /\ UNCHANGED <<d_rate, d_hdrs, d_pos, d_oldpos, d_frame_nr0, d_sec0,
                   d_header, d_ret, d_warned, d_reads>>
    /\ UNCHANGED <<pvars, rvars, wvars, hvars, ovars, svars>>

\* lines 288-291: one pass of the second loop
RateLoop2 ==
    /\ d_pc = "loop2"
    /\ d_header.frame_nr > 0
    /\ d_max_frame' = Max(d_header.frame_nr, d_max_frame)
    /\ ReadHeader(d_pos + PayloadBytes, "loop2")
    /\ UNCHANGED <<d_rate, d_hdrs, d_oldpos, d_frame_nr0, d_sec0,
                   d_ret, d_warned>>
    /\ UNCHANGED <<pvars, rvars, wvars, hvars, ovars, svars>>

\* lines 293-297: the second loop ends, fh goes back and the rate is returned
RateReturn ==
    /\ d_pc = "loop2"
    /\ ~(d_header.frame_nr > 0)
    /\ d_warned' = (d_header.seconds # d_sec0 + 1)
    /\ d_pos' = d_oldpos
    /\ d_ret' = d_max_frame + 1
    /\ d_pc' = "done"
    /\ UNCHANGED <<d_rate, d_hdrs, d_oldpos, d_frame_nr0, d_sec0,
                   d_header, d_max_frame, d_reads>>
    /\ UNCHANGED <<pvars, rvars, wvars, hvars, ovars, svars>>

RateNext ==
    \/ RateStart
    \/ RateLoop1
    \/ RateLoop1Exit
    \/ RateLoop2
    \/ RateReturn

\* the headers of a file whose frames carry the frame numbers nrs, as a
\* recording with frames missing has them; the second goes up where the
\* frame number goes down
ScanHeaders(nrs) ==
    Tuple([i \in 1..Len(nrs) |->
        Header(nrs[i], Cardinality({k \in 2..i : nrs[k] < nrs[k - 1]}))])

\* a file of whole frames with any frame numbers, fh at the start of one of
\* them (or at the end)
ScanInit ==
    /\ d_rate = MaxNr + 1
    /\ \E nrs \in SeqsUpTo(0..MaxNr, MaxScan) : d_hdrs = ScanHeaders(nrs)
    /\ \E f \in 0..Len(d_hdrs) : d_pos = f * FrameBytes
    /\ d_pc = "start"
    /\ d_oldpos = 0
    /\ d_frame_nr0 = 0
    /\ d_sec0 = 0
    /\ d_header = NoHeader
    /\ d_max_frame = 0
    /\ d_ret = 0
    /\ d_warned = FALSE
    /\ d_reads = 0

\* ------------------------------------------------------------------
\* Claims about the frame-rate detection
\* ------------------------------------------------------------------
RateEnded == d_pc \in {"done", "failed"}

\* the frames from the position _get_frame_rate was called at
FramesAhead == Len(d_hdrs) - d_oldpos \div FrameBytes

\* C3: on headers numbered 0..R-1 again and again, from a frame 0 on and
\* with at least R frames (a second of data), _get_frame_rate returns R, for
\* every R >= 1
C3_RateOfAFullSecond ==
    (/\ RateEnded
     /\ FramesAhead >= d_rate
     /\ d_hdrs[d_oldpos \div FrameBytes + 1].frame_nr = 0)
        => (d_pc = "done" /\ d_ret = d_rate)

\* C4: with fewer than R frames to read, whatever the first frame number,
\* _get_frame_rate fails with EOFError and returns no rate
C4_ShortFileFails ==
    (RateEnded /\ FramesAhead < d_rate)
        => (d_pc = "failed" /\ d_ret = 0)

\* C5: when _get_frame_rate ends, by returning or by failing, fh is where
\* it was at the call
C5_PositionRestored ==
    RateEnded => d_pos = d_oldpos

\* the frame (1-based) _get_frame_rate was called at, and frame numbers
StartIdx == d_oldpos \div FrameBytes + 1

Nr(i) == d_hdrs[i].frame_nr

FirstIdx(S) == CHOOSE i \in S : \A j \in S : i <= j

MaxNrIn(a, b) == CHOOSE m \in {Nr(i) : i \in a..b} :
                    \A i \in a..b : Nr(i) <= m

\* the frames after the first whose number is lower than the one before
WrapIdxs == {i \in (StartIdx + 1)..Len(d_hdrs) : Nr(i) < Nr(i - 1)}

\* the frames after the first whose number is not the first frame's
OtherIdxs == {i \in (StartIdx + 1)..Len(d_hdrs) : Nr(i) # Nr(StartIdx)}

\* the frames numbered 0 from the first of those on
ZeroIdxs ==
    {i \in (StartIdx + 1)..Len(d_hdrs) :
        /\ Nr(i) = 0
        /\ \E j \in OtherIdxs : j <= i}

\* C21 as stated: the detector reads up to the first header whose frame
\* number is lower than that of the header before it, no further, and
\* returns 1 + the largest frame number before that header
C21_StopsAtFirstDecrease ==
    d_pc = "done"
        => /\ WrapIdxs # {}
           /\ d_reads = FirstIdx(WrapIdxs) - StartIdx + 1
           /\ d_ret = 1 + MaxNrIn(StartIdx, FirstIdx(WrapIdxs) - 1)

\* C21, amended: the detector skips the headers that carry the first
\* header's frame number, reads on to the first header numbered 0, no
\* further, and returns 1 + the largest frame number before that header;
\* without such a header it fails
C21_StopsAtFrameZero ==
    RateEnded
        => /\ d_pc = "done" <=> (StartIdx <= Len(d_hdrs) /\ ZeroIdxs # {})
           /\ d_pc = "done"
                 => /\ d_reads = FirstIdx(ZeroIdxs) - StartIdx + 1
                    /\ d_ret = 1 + MaxNrIn(StartIdx, FirstIdx(ZeroIdxs) - 1)

\* the frame number went down to one that is not 0, and a larger frame
\* number than any before came after that
C21_Witness ==
    /\ d_pc = "done"
    /\ WrapIdxs # {}
    /\ Nr(FirstIdx(WrapIdxs)) > 0
    /\ d_ret > 1 + MaxNrIn(StartIdx, FirstIdx(WrapIdxs) - 1)
    /\ d_warned

\* C24: on a finite file the detector ends, by returning a rate or by
\* failing with EOFError, and reads no more headers than the file holds
\* from the position it was called at
C24_DetectorTerminates ==
    /\ <>RateEnded
    /\ [](d_reads <= Len(d_hdrs) - d_oldpos \div FrameBytes)

\* every header of a file of several frames carried the same frame number,
\* all were read and the detector failed
C24_Witness ==
    /\ d_pc = "failed"
    /\ Len(d_hdrs) >= 3
    /\ \A i \in 1..Len(d_hdrs) : Nr(i) = 1
    /\ d_reads = Len(d_hdrs)

\* ------------------------------------------------------------------
\* Time: an instant or a duration is a whole number of ticks; a second has
\* as many ticks as make every sample instant of the modelled rates a tick
\* ------------------------------------------------------------------
SampleRates == {2, 3, 4}

RECURSIVE ProdOf(_)
ProdOf(S) == IF S = {} THEN 1
             ELSE LET x == CHOOSE y \in S : TRUE IN x * ProdOf(S \ {x})

TicksPerSec == ProdOf(SampleRates)

StartTimes == {7}

\* num / den rounded to the nearest integer, halves going up
RoundHalfUp(num, den) == (2 * num + den) \div (2 * den)

\* numpy's round of num / den (den > 0): to the nearest integer, halves to
\* the even one
RoundHalfEven(num, den) ==
    LET q == num \div den
        r == num % den
    IN  IF 2 * r < den THEN q
        ELSE IF 2 * r > den THEN q + 1
        ELSE IF q % 2 = 0 THEN q ELSE q + 1

\* ------------------------------------------------------------------
\* VLBIStreamBase / VLBIStreamReaderBase: tell, size, seek
\* ------------------------------------------------------------------
\* maximum=10*self.header0.framesize, in frames
LastHeaderWindow == 10

ReaderFrames == r_ngood + r_ntrail

\* header.time of frame i (0-based) of the file
HeaderTime(i) ==
    r_start_time + (i * r_spf * TicksPerSec) \div r_file_rate

\* find_header(template_header=header0, maximum=..., forward=False) from
\* one frame before the end: the last frame whose header verifies, if it is
\* at most LastHeaderWindow frames before the last frame
FindLastHeader ==
    IF (ReaderFrames - 1) - (r_ngood - 1) <= LastHeaderWindow
    THEN Some(r_ngood - 1) ELSE None

\* _last_header without the check that a header was found
LastHeaderUnchecked ==
    IF r_last_header # None
    THEN [err |-> "ok", val |-> r_last_header[1], cache |-> r_last_header]
    ELSE [err |-> "ok", val |-> r_ngood - 1, cache |-> Some(r_ngood - 1)]

\* _last_header (a lazyproperty): [err, val, cache]
LastHeader ==
    IF r_last_header # None
    THEN [err |-> "ok", val |-> r_last_header[1], cache |-> r_last_header]
    ELSE IF FindLastHeader = None
    THEN [err |-> "ValueError", val |-> 0, cache |-> None]
    ELSE [err |-> "ok", val |-> FindLastHeader[1], cache |-> FindLastHeader]

\* where find_header leaves fh_raw: at the header it found, or where its
\* backward scan gave up
RawAfterFind ==
    IF FindLastHeader = None
    THEN Max(0, (ReaderFrames - 1 - LastHeaderWindow) * FrameBytes)
    ELSE (r_ngood - 1) * FrameBytes

\* _last_header without the seek back to raw_offset
RestoreRawSkipped(raw_offset, after_find) == after_find

\* self.fh_raw.seek(raw_offset): fh_raw's position after it
RestoreRaw(raw_offset, after_find) == raw_offset

\* fh_raw's position after a use of _last_header
RawAfterLastHeader ==
    IF r_last_header # None THEN r_raw
    ELSE RestoreRaw(r_raw, RawAfterFind)

\* fh_raw's position after a use of stop_time
RawAfterStopTime ==
    IF r_stop_time # None THEN r_raw ELSE RawAfterLastHeader

\* stop_time as a plain property: computed afresh at every use
StopTimeRecomputed ==
    IF LastHeader.err # "ok"
    THEN [err |-> LastHeader.err, val |-> 0, cache |-> None]
    ELSE LET t == HeaderTime(LastHeader.val)
                    + (r_spf * TicksPerSec) \div r_sample_rate
         IN  [err |-> "ok", val |-> t, cache |-> Some(t)]

\* stop_time (a lazyproperty): [err, val, cache]
StopTime ==
    IF r_stop_time # None
    THEN [err |-> "ok", val |-> r_stop_time[1], cache |-> r_stop_time]
    ELSE IF LastHeader.err # "ok"
    THEN [err |-> LastHeader.err, val |-> 0, cache |-> None]
    ELSE LET t == HeaderTime(LastHeader.val)
                    + (r_spf * TicksPerSec) \div r_sample_rate
         IN  [err |-> "ok", val |-> t, cache |-> Some(t)]

\* size: [err, val]
ReaderSize ==
    IF StopTime.err # "ok" THEN Ret(StopTime.err, 0)
    ELSE Ret("ok", RoundHalfEven((StopTime.val - r_start_time) * r_sample_rate,
                                 TicksPerSec))

\* tell()
Tell == r_offset

\* tell(unit='time'), in ticks
TellTime == r_start_time + (r_offset * TicksPerSec) \div r_sample_rate

\* the time tell('time') reports at offset n
TimeAt(n) == r_start_time + (n * TicksPerSec) \div r_sample_rate

\* seek's targets: a sample count, an absolute time or a duration
IntTarget(n) == [kind |-> "int", arg |-> n]
TimeTarget(t) == [kind |-> "time", arg |-> t]
DurationTarget(d) == [kind |-> "duration", arg |-> d]

\* int((offset * self.sample_rate).to(u.one).round()) with halves going up
TicksToSamplesHalfUp(ticks) ==
    RoundHalfUp(ticks * r_sample_rate, TicksPerSec)

\* line 364: int((offset * self.sample_rate).to(u.one).round())
TicksToSamples(ticks) ==
    RoundHalfEven(ticks * r_sample_rate, TicksPerSec)

\* lines 354-364: the target as a number of samples
TargetOffset(target) ==
    IF target.kind = "int" THEN target.arg
    ELSE IF target.kind = "time"
    THEN TicksToSamples(target.arg - r_start_time)
    ELSE TicksToSamples(target.arg)

\* whence as passed, also for a time
TargetWhenceAsPassed(target, whence) == whence

\* lines 357-362: whence = 0 for a time
TargetWhence(target, whence) ==
    IF target.kind = "time" THEN "0" ELSE whence

\* whence as given to seek: the ints 0, 1, 2, 3 and the strings
Whences == {"0", "start", "1", "current", "2", "end", "3"}

\* the new offset forced into 0..size
ApplyWhenceClamped(whence, offset) ==
    IF whence \in {"0", "start"}
    THEN Ret("ok", Max(0, offset))
    ELSE IF whence \in {"1", "current"}
    THEN Ret("ok", Max(0, r_offset + offset))
    ELSE IF whence \in {"2", "end"}
    THEN (IF ReaderSize.err # "ok" THEN Ret(ReaderSize.err, r_offset)
          ELSE Ret("ok", Min(ReaderSize.val, ReaderSize.val + offset)))
    ELSE Ret("ValueError", r_offset)

\* any other whence taken as 0
ApplyWhenceDefaultStart(whence, offset) ==
    IF whence \in {"1", "current"}
    THEN Ret("ok", r_offset + offset)
    ELSE IF whence \in {"2", "end"}
    THEN (IF ReaderSize.err # "ok" THEN Ret(ReaderSize.err, r_offset)
          ELSE Ret("ok", ReaderSize.val + offset))
    ELSE Ret("ok", offset)

\* lines 366-374: [err, val], val the new self.offset
ApplyWhence(whence, offset) ==
    IF whence \in {"0", "start"}
    THEN Ret("ok", offset)
    ELSE IF whence \in {"1", "current"}
    THEN Ret("ok", r_offset + offset)
    ELSE IF whence \in {"2", "end"}
    THEN (IF ReaderSize.err # "ok" THEN Ret(ReaderSize.err, r_offset)
          ELSE Ret("ok", ReaderSize.val + offset))
    ELSE Ret("ValueError", r_offset)

NoOp == [kind |-> "none", arg |-> 0, whence |-> "0", prev |-> 0]

ReaderIdle ==
    /\ r_sample_rate = 2
    /\ r_spf = 1
    /\ r_start_time = 0
    /\ r_ngood = 1
    /\ r_ntrail = 0
    /\ r_raw = 0
    /\ r_offset = 0
    /\ r_last_header = None
    /\ r_stop_time = None
    /\ r_op = NoOp
    /\ r_ret = Ret("ok", 0)
    /\ r_told = None
    /\ r_file_rate = 2
    /\ r_squeeze = TRUE
    /\ r_sizes = <<>>
    /\ r_stop_ret = None
    /\ r_stop_rate = 0

\* __init__ with a sample rate given: header0 read, fh_raw after it
ReaderInit ==
    /\ r_sample_rate \in SampleRates
    /\ r_spf = 2
    /\ r_start_time \in StartTimes
    /\ r_ngood \in 1..MaxGood
    /\ r_ntrail \in {0, 1, LastHeaderWindow, LastHeaderWindow + 1}
    /\ r_raw = HeaderBytes
    /\ r_offset = 0
    /\ r_last_header = None
    /\ r_stop_time = None
    /\ r_op = NoOp
    /\ r_ret = Ret("ok", 0)
    /\ r_told = None
    /\ r_file_rate = r_sample_rate
    /\ r_squeeze = TRUE
    /\ r_sizes = <<>>
    /\ r_stop_ret = None
    /\ r_stop_rate = 0

\* the sample rate stop_time was computed with, after a use of stop_time
StopRateAfter ==
    IF r_stop_time = None /\ StopTime.cache # None
    THEN r_sample_rate ELSE r_stop_rate

\* seek(target, whence); the last call's arguments are kept until the
\* tell() that follows it
ReaderSeek(target, whence) ==
    LET wh == TargetWhence(target, whence)
        r == ApplyWhence(wh, TargetOffset(target))
        sized == wh \in {"2", "end"}
    IN  /\ r_op.kind = "none"
        /\ r.val \in (0 - MaxOffset)..MaxOffset
        /\ r_offset' = r.val
        /\ r_ret' = r
        /\ r_op' = [kind |-> target.kind, arg |-> target.arg,
                    whence |-> whence, prev |-> r_offset]
        /\ r_told' = None
        /\ r_last_header' = IF sized /\ r_stop_time = None
                            THEN LastHeader.cache ELSE r_last_header
        /\ r_stop_time' = IF sized THEN StopTime.cache ELSE r_stop_time
        /\ r_stop_rate' = IF sized THEN StopRateAfter ELSE r_stop_rate
        /\ r_raw' = IF sized THEN RawAfterStopTime ELSE r_raw
        /\ UNCHANGED <<r_sample_rate, r_spf, r_start_time, r_ngood, r_ntrail,
                       r_file_rate, r_squeeze, r_sizes, r_stop_ret>>
        /\ UNCHANGED <<pvars, dvars, wvars, hvars, ovars, svars>>

\* tell()
ReaderTell ==
    /\ r_op.kind # "none"
    /\ r_told' = Some(Tell)
    /\ r_op' = NoOp
    /\ UNCHANGED <<r_sample_rate, r_spf, r_start_time, r_ngood, r_ntrail,
                   r_raw, r_offset, r_last_header, r_stop_time, r_ret,
                   r_file_rate, r_squeeze, r_sizes, r_stop_ret, r_stop_rate>>
    /\ UNCHANGED <<pvars, dvars, wvars, hvars, ovars, svars>>

SeekTargets ==
    {IntTarget(n) : n \in (0 - MaxSeek)..MaxSeek}
    \cup {TimeTarget(r_start_time + d) : d \in (0 - MaxTicks)..MaxTicks}
    \cup {DurationTarget(d) : d \in (0 - MaxTicks)..MaxTicks}

ReaderNext ==
    \/ /\ r_op.kind = "none"
       /\ \E target \in SeekTargets, whence \in Whences :
             ReaderSeek(target, whence)
    \/ ReaderTell

\* a read of size
ReaderGetSize ==
    /\ Len(r_sizes) < MaxReads
    /\ r_sizes' = Append(r_sizes, [err |-> ReaderSize.err,
                                    val |-> ReaderSize.val,
                                    rate |-> r_sample_rate])
    /\ r_last_header' = IF r_stop_time = None
                        THEN LastHeader.cache ELSE r_last_header
    /\ r_stop_time' = StopTime.cache
    /\ r_stop_rate' = StopRateAfter
    /\ r_raw' = RawAfterStopTime
    /\ UNCHANGED <<r_sample_rate, r_spf, r_start_time, r_ngood, r_ntrail,
                   r_offset, r_op, r_ret, r_told, r_file_rate, r_squeeze,
                   r_stop_ret>>
    /\ UNCHANGED <<pvars, dvars, wvars, hvars, ovars, svars>>

\* a read of stop_time
ReaderGetStopTime ==
    /\ r_stop_ret' = Some(Ret(StopTime.err, StopTime.val))
    /\ r_last_header' = IF r_stop_time = None
                        THEN LastHeader.cache ELSE r_last_header
    /\ r_stop_time' = StopTime.cache
    /\ r_stop_rate' = StopRateAfter
    /\ r_raw' = RawAfterStopTime
    /\ UNCHANGED <<r_sample_rate, r_spf, r_start_time, r_ngood, r_ntrail,
                   r_offset, r_op, r_ret, r_told, r_file_rate, r_squeeze,
                   r_sizes>>
    /\ UNCHANGED <<pvars, dvars, wvars, hvars, ovars, svars>>

\* sample_rate = rate, a rate per time
ReaderSetSampleRate(rate) ==
    /\ r_sample_rate' = rate
    /\ UNCHANGED <<r_spf, r_start_time, r_ngood, r_ntrail, r_raw, r_offset,
                   r_last_header, r_stop_time, r_op, r_ret, r_told,
                   r_file_rate, r_squeeze, r_sizes, r_stop_ret, r_stop_rate>>
    /\ UNCHANGED <<pvars, dvars, wvars, hvars, ovars, svars>>

\* squeeze = b
ReaderSetSqueeze(b) ==
    /\ r_squeeze' = (b = TRUE)
    /\ UNCHANGED <<r_sample_rate, r_spf, r_start_time, r_ngood, r_ntrail,
                   r_raw, r_offset, r_last_header, r_stop_time, r_op, r_ret,
                   r_told, r_file_rate, r_sizes, r_stop_ret, r_stop_rate>>
    /\ UNCHANGED <<pvars, dvars, wvars, hvars, ovars, svars>>

\* fh_raw.seek(pos)
ReaderRawSeek(pos) ==
    /\ r_raw' = pos
    /\ UNCHANGED <<r_sample_rate, r_spf, r_start_time, r_ngood, r_ntrail,
                   r_offset, r_last_header, r_stop_time, r_op, r_ret, r_told,
                   r_file_rate, r_squeeze, r_sizes, r_stop_ret, r_stop_rate>>
    /\ UNCHANGED <<pvars, dvars, wvars, hvars, ovars, svars>>

\* the seeks tried between reads of size
SizeSeekTargets == {IntTarget(1)}

SizeNext ==
    \/ ReaderGetSize
    \/ ReaderGetStopTime
    \/ \E rate \in SampleRates : ReaderSetSampleRate(rate)
    \/ \E b \in BOOLEAN : ReaderSetSqueeze(b)
    \/ /\ r_op.kind = "none"
       /\ \E target \in SizeSeekTargets, whence \in {"end"} :
             ReaderSeek(target, whence)
    \/ ReaderTell

\* ------------------------------------------------------------------
\* Claims about seek and tell
\* ------------------------------------------------------------------
Abs(x) == IF x < 0 THEN 0 - x ELSE x

\* n is num / den (den > 0) rounded to the nearest integer, a half to the
\* even one
IsNearestEven(n, num, den) ==
    /\ 2 * Abs(n * den - num) <= den
    /\ 2 * Abs(n * den - num) = den => n % 2 = 0

\* the offset whence counts from in the last seek
WhenceBase ==
    IF r_op.whence \in {"0", "start"} THEN 0
    ELSE IF r_op.whence \in {"1", "current"} THEN r_op.prev
    ELSE ReaderSize.val

ValidWhence == r_op.whence \in {"0", "start", "1", "current", "2", "end"}

\* C8: seek(n, whence) of an int n sets the offset to n, to the offset
\* before + n or to size + n, unclamped, and returns it; tell() then returns
\* the same
C8_IntSeekSetsOffset ==
    /\ (r_op.kind = "int" /\ r_op.whence \in {"0", "start", "1", "current"})
          => r_ret.err = "ok"
    /\ (r_op.kind = "int" /\ r_ret.err = "ok")
          => /\ ValidWhence
             /\ r_offset = WhenceBase + r_op.arg
             /\ r_ret.val = r_offset
             /\ Tell = r_offset
    /\ (r_told # None /\ r_ret.err = "ok") => r_told = Some(r_ret.val)

\* a seek back from the current offset ended before the start of the stream
C8_Witness ==
    /\ r_op.kind = "int"
    /\ r_op.whence = "current"
    /\ r_op.prev > 0
    /\ r_ret = Ret("ok", 0 - 1)
    /\ r_offset = 0 - 1

\* C9: seek(t) of a time t sets the offset to (t - start_time) * sample_rate
\* rounded half to even, whatever whence and the offset before; seek(d) of a
\* duration d rounds d * sample_rate so and applies whence
C9_TimeSeekRoundsHalfEven ==
    /\ r_op.kind = "time"
          => /\ r_ret = Ret("ok", r_offset)
             /\ IsNearestEven(r_offset,
                              (r_op.arg - r_start_time) * r_sample_rate,
                              TicksPerSec)
    /\ (r_op.kind = "duration" /\ ValidWhence
            /\ (r_op.whence \in {"2", "end"} => ReaderSize.err = "ok"))
          => /\ r_ret = Ret("ok", r_offset)
             /\ IsNearestEven(r_offset - WhenceBase,
                              r_op.arg * r_sample_rate, TicksPerSec)

\* a time half a sample after an odd sample was sought with whence = 1 from
\* an offset other than 0
C9_Witness ==
    /\ r_op.kind = "time"
    /\ r_op.whence = "current"
    /\ r_op.prev # 0
    /\ 2 * (r_op.arg - r_start_time) * r_sample_rate = 3 * TicksPerSec
    /\ r_offset = 2

\* C10: after seek(t), tell('time') is within one sample period of t; and
\* seek(tell('time')) leaves the offset as it is
C10_TimeRoundTrip ==
    r_op.kind = "time"
        => /\ Abs(TellTime - r_op.arg) * r_sample_rate <= TicksPerSec
           /\ r_op.arg = TimeAt(r_op.prev) => r_offset = r_op.prev

\* the time of the current offset, not 0, was sought with whence = 1
C10_Witness ==
    /\ r_op.kind = "time"
    /\ r_op.prev # 0
    /\ r_op.arg = TimeAt(r_op.prev)
    /\ r_op.whence = "current"
    /\ r_offset = r_op.prev

\* C19: seek of a sample count or a duration with a whence other than 0,
\* 'start', 1, 'current', 2, 'end' fails with ValueError and leaves the
\* offset as it was; tell() then still returns it
C19_InvalidWhenceFails ==
    (r_op.kind \in {"int", "duration"}
        /\ r_op.whence \notin {"0", "start", "1", "current", "2", "end"})
        => /\ r_ret.err = "ValueError"
           /\ r_offset = r_op.prev
           /\ Tell = r_op.prev

\* a duration was sought with whence = 3 from an offset other than 0
C19_Witness ==
    /\ r_op.kind = "duration"
    /\ r_op.arg # 0
    /\ r_op.whence = "3"
    /\ r_op.prev # 0
    /\ r_ret.err = "ValueError"
    /\ r_offset = r_op.prev

\* ------------------------------------------------------------------
\* Claims about size and stop_time
\* ------------------------------------------------------------------
SizeReads == 1..Len(r_sizes)

LastGoodFrame == r_ngood - 1

\* headers that do not verify follow it over more than the window
NoHeaderInWindow == r_ntrail > LastHeaderWindow

\* the last seek counted from the end of the file
SeekFromEnd == r_op.kind \in {"int", "duration"} /\ r_op.whence \in {"2", "end"}

\* C12: stop_time is the time of the last header that verifies within 10
\* frames of the last frame, plus samples_per_frame / sample_rate; when there
\* is none, stop_time, size and a seek from the end fail with ValueError,
\* give no value and leave the offset as it was
C12_StopTimeFromLastHeader ==
    /\ (r_stop_ret # None /\ ~NoHeaderInWindow)
          => /\ r_stop_ret[1].err = "ok"
             /\ r_stop_ret[1].val * r_stop_rate
                    = HeaderTime(LastGoodFrame) * r_stop_rate
                          + r_spf * TicksPerSec
             /\ r_stop_time = Some(r_stop_ret[1].val)
    /\ (r_stop_ret # None /\ NoHeaderInWindow)
          => r_stop_ret[1] = Ret("ValueError", 0)
    /\ NoHeaderInWindow
          => /\ r_stop_time = None
             /\ \A i \in SizeReads : r_sizes[i].err = "ValueError"
             /\ SeekFromEnd => (r_ret.err = "ValueError"
                                /\ r_offset = r_op.prev)
    /\ (~NoHeaderInWindow /\ SeekFromEnd) => r_ret.err = "ok"

\* stop_time was read from a file that ends in as many frames without a
\* valid header as the window allows, after the sample rate was changed
C12_Witness ==
    /\ r_ntrail = LastHeaderWindow
    /\ r_ngood = 2
    /\ r_stop_ret # None
    /\ r_stop_ret[1].err = "ok"
    /\ r_stop_rate # r_file_rate

\* ------------------------------------------------------------------
\* VLBIFileBase.close, __exit__ and VLBIStreamWriterBase.close
\* ------------------------------------------------------------------
Event(ev, n, invalid) == [ev |-> ev, n |-> n, invalid_data |-> invalid]

WarnEvent == Event("warn", 0, FALSE)
FhCloseEvent == Event("fh_raw.close", 0, FALSE)
\* self.write(np.zeros((n,) + sample_shape), invalid_data=invalid)
WriteZerosEvent(n, invalid) == Event("write zeros", n, invalid)

\* self.write(data) of n samples that does not raise: the offset afterwards
WriteOffset(offset, n) == offset + n

\* the padding taken to be the samples of the partial frame
PadSamplesExtra(spf, extra) == extra

\* line 385: the samples that fill the partial frame
PadSamples(spf, extra) == spf - extra

NoCall == [op |-> "none", prev |-> 0, raised |-> FALSE]

CloseIdle ==
    /\ w_kind = "reader"
    /\ w_spf = 1
    /\ w_offset = 0
    /\ w_open = FALSE
    /\ w_call = NoCall
    /\ w_events = <<>>

\* a stream on an open file, nothing written or read yet
CloseInit ==
    /\ w_kind \in {"reader", "writer"}
    /\ w_spf \in 1..MaxSpf
    /\ w_offset = 0
    /\ w_open = TRUE
    /\ w_call = NoCall
    /\ w_events = <<>>

\* write(data) of n samples by the stream's user
WriterWrite(n) ==
    /\ w_kind = "writer"
    /\ w_open
    /\ w_offset + n <= MaxWritten
    /\ w_offset' = WriteOffset(w_offset, n)
    /\ w_call' = NoCall
    /\ w_events' = <<>>
    /\ UNCHANGED <<w_kind, w_spf, w_open>>
    /\ UNCHANGED <<pvars, dvars, rvars, hvars, ovars, svars>>

\* close() (op = "close") or __exit__ (op = "exit"), which calls close();
\* write_raises: whether self.write, if close calls it, raises
StreamClose(op, write_raises) ==
    LET extra == w_offset % w_spf
        pads == w_kind = "writer" /\ extra # 0
        n == PadSamples(w_spf, extra)
    IN  /\ w_call' = [op |-> op, prev |-> w_offset,
                      raised |-> pads /\ write_raises]
        /\ w_events' =
              IF ~pads THEN <<FhCloseEvent>>
              ELSE IF write_raises THEN <<WarnEvent>>
              ELSE <<WarnEvent, WriteZerosEvent(n, TRUE), FhCloseEvent>>
        /\ w_offset' = IF pads /\ ~write_raises
                       THEN WriteOffset(w_offset, n) ELSE w_offset
        /\ w_open' = IF pads /\ write_raises THEN w_open ELSE FALSE
        /\ UNCHANGED <<w_kind, w_spf>>
        /\ UNCHANGED <<pvars, dvars, rvars, hvars, ovars, svars>>

CloseNext ==
    \/ \E n \in 1..MaxSpf : WriterWrite(n)
    \/ \E op \in {"close", "exit"}, write_raises \in BOOLEAN :
          StreamClose(op, write_raises)

\* ------------------------------------------------------------------
\* Claims about close
\* ------------------------------------------------------------------
Closing == w_call.op \in {"close", "exit"}

\* C6: when a writer's close returns, the offset is a multiple of
\* samples_per_frame: from an offset with e = offset % samples_per_frame not
\* 0 it warned, wrote samples_per_frame - e zeros marked invalid, once, and
\* then closed the file; from e = 0 it only closed the file
C6_ClosePadsToFrame ==
    (Closing /\ w_kind = "writer" /\ ~w_call.raised)
        => LET e == w_call.prev % w_spf
           IN  /\ w_offset % w_spf = 0
               /\ ~w_open
               /\ e # 0 =>
                     /\ w_events = <<WarnEvent,
                                     WriteZerosEvent(w_spf - e, TRUE),
                                     FhCloseEvent>>
                     /\ w_offset = w_call.prev + (w_spf - e)
               /\ e = 0 =>
                     /\ w_events = <<FhCloseEvent>>
                     /\ w_offset = w_call.prev

\* a close from the second sample of a 3-sample frame returned
C6_Witness ==
    /\ Closing
    /\ w_kind = "writer"
    /\ ~w_call.raised
    /\ w_spf = 3
    /\ w_call.prev % w_spf = 1
    /\ Len(w_events) = 3

\* C7: every close, explicit or on leaving a with-block, leaves fh_raw
\* closed, also a writer's close whose padding write raises
C7_CloseAlwaysClosesFile ==
    Closing => ~w_open

\* ------------------------------------------------------------------
\* Specifications
\* ------------------------------------------------------------------
\* ------------------------------------------------------------------
\* VLBIStreamBase: sample_shape and _unsqueeze
\* ------------------------------------------------------------------
\* [dim for dim in self._sample_shape if dim > 1]
SqzDims(shape) == SelectSeq(shape, LAMBDA dim : dim > 1)

\* the sample_shape property: [val, cache], cache the new _squeezed_shape;
\* an empty _squeezed_shape is falsy and computed again
SampleShape ==
    IF h_squeeze
    THEN IF h_squeezed = None \/ h_squeezed = Some(<<>>)
         THEN [val |-> SqzDims(h_shape), cache |-> Some(SqzDims(h_shape))]
         ELSE [val |-> h_squeezed[1], cache |-> h_squeezed]
    ELSE [val |-> h_shape, cache |-> h_squeezed]

\* list.insert(index, x), index >= 0 counted from 0: past the end it appends
ListInsert(list, index, x) ==
    LET at == Min(index, Len(list))
    IN  SubSeq(list, 1, at) \o <<x>> \o SubSeq(list, at + 1, Len(list))

\* the loop of _unsqueeze inserting at i
RECURSIVE UnsqueezeLoopAtI(_, _, _)
UnsqueezeLoopAtI(new_shape, shape, i) ==
    IF i >= Len(shape) THEN new_shape
    ELSE UnsqueezeLoopAtI(IF shape[i + 1] = 1
                          THEN ListInsert(new_shape, i, 1) ELSE new_shape,
                          shape, i + 1)

\* lines 99-101, from the i-th (0-based) dimension of _sample_shape on
RECURSIVE UnsqueezeLoop(_, _, _)
UnsqueezeLoop(new_shape, shape, i) ==
    IF i >= Len(shape) THEN new_shape
    ELSE UnsqueezeLoop(IF shape[i + 1] = 1
                       THEN ListInsert(new_shape, i + 1, 1) ELSE new_shape,
                       shape, i + 1)

\* data.reshape(new_shape): the shape of the result, None when the sizes
\* differ (ValueError)
ReshapeTo(data_shape, new_shape) ==
    IF Prod(data_shape) = Prod(new_shape) THEN Some(new_shape) ELSE None

\* _unsqueeze(data), on shapes
Unsqueeze(data_shape) ==
    ReshapeTo(data_shape, UnsqueezeLoop(data_shape, h_shape, 0))

SampleShapes == SeqsUpTo(1..MaxDim, MaxRank)

ShapeIdle ==
    /\ h_shape = <<>>
    /\ h_squeeze = TRUE
    /\ h_squeezed = None
    /\ h_pc = "idle"
    /\ h_ret = <<>>
    /\ h_data = <<>>
    /\ h_out = None

\* __init__(..., sample_shape, ..., squeeze)
ShapeInit ==
    /\ h_shape \in SampleShapes
    /\ h_squeeze \in BOOLEAN
    /\ h_squeezed = None
    /\ h_pc = "fresh"
    /\ h_ret = <<>>
    /\ h_data = <<>>
    /\ h_out = None

\* a read of sample_shape
ShapeGet ==
    /\ h_pc # "idle"
    /\ h_ret' = SampleShape.val
    /\ h_squeezed' = SampleShape.cache
    /\ h_pc' = "shape"
    /\ UNCHANGED <<h_shape, h_squeeze, h_data, h_out>>
    /\ UNCHANGED <<pvars, dvars, rvars, wvars, ovars, svars>>

\* squeeze = b; what was read before says nothing of the new setting
ShapeSetSqueeze(b) ==
    /\ h_pc # "idle"
    /\ h_squeeze' = (b = TRUE)
    /\ h_pc' = "fresh"
    /\ UNCHANGED <<h_shape, h_squeezed, h_ret, h_data, h_out>>
    /\ UNCHANGED <<pvars, dvars, rvars, wvars, ovars, svars>>

\* _unsqueeze(data) of an array of n samples of the squeezed shape
ShapeUnsqueeze(n) ==
    /\ h_pc # "idle"
    /\ h_data' = <<n>> \o SqzDims(h_shape)
    /\ h_out' = Unsqueeze(<<n>> \o SqzDims(h_shape))
    /\ h_pc' = "unsqueezed"
    /\ UNCHANGED <<h_shape, h_squeeze, h_squeezed, h_ret>>
    /\ UNCHANGED <<pvars, dvars, rvars, wvars, ovars, svars>>

ShapeNext ==
    \/ ShapeGet
    \/ \E b \in BOOLEAN : ShapeSetSqueeze(b)
    \/ \E n \in 0..MaxN : ShapeUnsqueeze(n)

\* the dimensions of h_shape greater than 1, up to the i-th
BigUpTo(i) == {j \in 1..i : h_shape[j] > 1}

\* C13: with squeeze on, sample_shape is the dimensions of _sample_shape
\* greater than 1 in their order; _unsqueeze takes an array of shape
\* (n,) + squeezed shape to shape (n,) + _sample_shape
C13_UnsqueezeInvertsSqueeze ==
    /\ (h_pc = "shape" /\ h_squeeze)
          => /\ Len(h_ret) = Cardinality(BigUpTo(Len(h_shape)))
             /\ \A i \in DOMAIN h_shape :
                   h_shape[i] > 1 => h_ret[Cardinality(BigUpTo(i))] = h_shape[i]
    /\ h_pc = "unsqueezed"
          => /\ Len(h_data) = 1 + Cardinality(BigUpTo(Len(h_shape)))
             /\ h_out = Some(<<h_data[1]>> \o h_shape)

\* a shape with unit dimensions first, last and between larger ones was
\* restored
C13_Witness ==
    /\ h_pc = "unsqueezed"
    /\ Len(h_shape) = 3
    /\ h_shape[1] = 1
    /\ h_shape[2] > 1
    /\ h_shape[3] = 1
    /\ h_data = <<2, h_shape[2]>>
    /\ h_out = Some(<<2, 1, h_shape[2], 1>>)
    /\ h_ret = <<h_shape[2]>>

\* ------------------------------------------------------------------
\* make_opener: open(name, mode, **kwargs)
\* ------------------------------------------------------------------
PathName == [kind |-> "path", has_read |-> FALSE, has_write |-> FALSE]

\* an object given as name: a file handle has read and write, other objects
\* may lack either
HandleName(has_read, has_write) ==
    [kind |-> "handle", has_read |-> has_read, has_write |-> has_write]

OpenerNames ==
    {PathName} \cup {HandleName(rd, wr) : rd, wr \in BOOLEAN}

\* modes by the letters open looks for: 'b', 'r', 'w'
OpenerModes == [b : BOOLEAN, r : BOOLEAN, w : BOOLEAN]

\* lines 433-439 and 441-447: the key into classes ("" when neither 'r'
\* nor 'w' is in mode)
ClsType(mode) ==
    <<IF mode.b THEN "File" ELSE "Stream",
      IF mode.w THEN "Writer" ELSE IF mode.r THEN "Reader" ELSE "">>

\* lines 443 and 448: got_fh
GotFh(name, mode) ==
    IF mode.w THEN name.has_write ELSE name.has_read

\* the file is closed whoever opened it
CloseOnFailureAlways(got_fh) == TRUE

\* line 458: whether open closes name when the constructor raised
CloseOnFailure(got_fh) == ~got_fh

OpenerIdle ==
    /\ o_name = PathName
    /\ o_mode = [b |-> FALSE, r |-> TRUE, w |-> FALSE]
    /\ o_kwargs = FALSE
    /\ o_env = [io_ok |-> TRUE, ctor_ok |-> TRUE]
    /\ o_pc = "idle"
    /\ o_opened = 0
    /\ o_file_open = FALSE
    /\ o_handle_closed = FALSE
    /\ o_ret = Ret("none", <<>>)

\* before a call of open
OpenerInit ==
    /\ o_name \in OpenerNames
    /\ o_mode \in OpenerModes
    /\ o_kwargs \in BOOLEAN
    /\ o_env \in [io_ok : BOOLEAN, ctor_ok : BOOLEAN]
    /\ o_pc = "fresh"
    /\ o_opened = 0
    /\ o_file_open = FALSE
    /\ o_handle_closed = FALSE
    /\ o_ret = Ret("none", <<>>)

\* open(name, mode, **kwargs): io.open of a path succeeds if o_env.io_ok
\* and raises TypeError for an object that is not a path; the constructor
\* raises an Exception unless o_env.ctor_ok
OpenCall ==
    LET got_fh == GotFh(o_name, o_mode)
        io_ok == o_name.kind = "path" /\ o_env.io_ok
        opens == ~got_fh /\ io_ok
        closes == ~o_env.ctor_ok /\ CloseOnFailure(got_fh)
    IN  /\ o_pc = "fresh"
        /\ o_pc' = "done"
        /\ IF o_mode.b /\ o_kwargs
           THEN /\ o_ret' = Ret("TypeError", <<>>)
                /\ UNCHANGED <<o_opened, o_file_open, o_handle_closed>>
           ELSE IF ~o_mode.w /\ ~o_mode.r
           THEN /\ o_ret' = Ret("ValueError", <<>>)
                /\ UNCHANGED <<o_opened, o_file_open, o_handle_closed>>
           ELSE IF ~got_fh /\ ~io_ok
           THEN /\ o_ret' = Ret(IF o_name.kind = "path" THEN "OSError"
                                 ELSE "io.open TypeError", <<>>)
                /\ UNCHANGED <<o_opened, o_file_open, o_handle_closed>>
           ELSE /\ o_opened' = IF opens THEN o_opened + 1 ELSE o_opened
                /\ o_file_open' = IF opens THEN ~closes ELSE o_file_open
                /\ o_handle_closed' = IF ~opens /\ closes
                                      THEN TRUE ELSE o_handle_closed
                /\ o_ret' = IF o_env.ctor_ok
                            THEN Ret("ok", ClsType(o_mode))
                            ELSE Ret("constructor", ClsType(o_mode))
        /\ UNCHANGED <<o_name, o_mode, o_kwargs, o_env>>
        /\ UNCHANGED <<pvars, dvars, rvars, wvars, hvars, svars>>

OpenerNext == OpenCall

\* C14: when the constructor raises, a file open() opened from a path is
\* closed again; a handle the caller passed is never closed by open(); and
\* when open() rejects binary mode with keyword arguments or a mode without
\* 'r' and 'w', it has opened no file
C14_OpenReleasesOnlyItsOwnFile ==
    o_pc = "done"
        => /\ (o_ret.err = "constructor" /\ o_name.kind = "path")
                 => (o_opened = 1 /\ ~o_file_open)
           /\ o_name.kind = "handle" => ~o_handle_closed
           /\ ((o_mode.b /\ o_kwargs) \/ (~o_mode.r /\ ~o_mode.w))
                 => /\ o_opened = 0
                    /\ o_ret.err \in {"TypeError", "ValueError"}
           /\ o_ret.err = "ok" => (o_name.kind = "path" <=> o_file_open)

\* the constructor of a stream writer raised on a handle the caller passed
C14_Witness ==
    /\ o_pc = "done"
    /\ o_name = HandleName(TRUE, TRUE)
    /\ o_ret = Ret("constructor", <<"Stream", "Writer">>)
    /\ o_kwargs
    /\ ~o_handle_closed
    /\ o_opened = 0

\* positions fh_raw is moved to: the start and the payload of a frame
RawPositions ==
    {f * FrameBytes + h : f \in 0..MaxGood, h \in {0, HeaderBytes}}

RawNext ==
    \/ /\ r_op.kind = "none"
       /\ \E pos \in RawPositions : ReaderRawSeek(pos)
    \/ ReaderGetSize
    \/ ReaderGetStopTime
    \/ /\ r_op.kind = "none"
       /\ \E target \in SizeSeekTargets, whence \in {"end"} :
             ReaderSeek(target, whence)
    \/ ReaderTell

\* C23: reading stop_time or size, and a seek from the end, leave fh_raw
\* where it was before the access, whether a last header is found or the
\* backward scan finds none and the access fails; a read of stop_time or
\* size, and a failed seek from the end, leave the sample offset as well
C23_LookupRestoresRawPosition ==
    [][/\ (ReaderGetSize \/ ReaderGetStopTime) =>
              (r_raw' = r_raw /\ r_offset' = r_offset)
       /\ (\E target \in SizeSeekTargets : ReaderSeek(target, "end")) =>
              /\ r_raw' = r_raw
              /\ r_ret'.err # "ok" => r_offset' = r_offset
      ]_<<pvars, dvars, rvars, wvars, hvars, ovars, svars>>

\* a seek from the end has just failed for want of a last header, after
\* reads of size and stop_time that failed too, with fh_raw away from
\* where __init__ left it and from where find_header leaves it
C23_Witness ==
    /\ r_op.kind = "int" /\ r_op.whence = "end"
    /\ r_ret.err = "ValueError"
    /\ r_offset = r_op.prev
    /\ r_sizes # <<>> /\ r_sizes[Len(r_sizes)].err = "ValueError"
    /\ r_stop_ret # None /\ r_stop_ret[1].err = "ValueError"
    /\ r_raw = FrameBytes + HeaderBytes
    /\ r_raw # RawAfterFind

\* ------------------------------------------------------------------
\* VLBIStreamBase: the sample rate and _frame_info
\* ------------------------------------------------------------------
MaxHz == 4

\* a quantity: a value with a unit; "Hz" is a rate per time, "m" is not
Quantity(v, unit) == [value |-> v, unit |-> unit]

\* the rates given to __init__ and to the sample_rate setter
GivenRates ==
    {Quantity(v, "Hz") : v \in (0 - MaxHz)..MaxHz} \cup {Quantity(1, "m")}

\* sample_rate.to(u.Hz) in the setter: the exception it raises, if any
RateCheck(rate) == IF rate.unit = "Hz" THEN "ok" ELSE "UnitsError"

\* the sample_rate setter: [err, val], val the rate the stream holds after
SetSampleRate(prev, rate) ==
    IF RateCheck(rate) = "ok" THEN Ret("ok", rate)
    ELSE Ret(RateCheck(rate), prev)

\* a divmod whose quotient is rounded towards zero
TruncDivMod(a, b) ==
    LET abs(x) == IF x < 0 THEN 0 - x ELSE x
        m == abs(a) \div abs(b)
        q == IF (a < 0) = (b < 0) THEN m ELSE 0 - m
    IN  [q |-> q, r |-> a - q * b]

\* divmod(a, b) of Python integers, b # 0: the quotient is rounded down
PyDivMod(a, b) ==
    LET q == IF b > 0 THEN a \div b ELSE (0 - a) \div (0 - b)
    IN  [q |-> q, r |-> a - q * b]

\* int(np.round((self.sample_rate / self.samples_per_frame).to_value(u.Hz)))
FrameRate == RoundHalfEven(s_sample_rate.value, s_spf)

\* _frame_info(): [err, dt, frame_nr, extra]
FrameInfo ==
    LET offset == s_offset + s_frame_nr0 * s_spf
        full == PyDivMod(offset, s_spf)
    IN  IF FrameRate = 0
        THEN [err |-> "ZeroDivisionError", dt |-> 0, frame_nr |-> 0,
              extra |-> 0]
        ELSE [err |-> "ok", dt |-> PyDivMod(full.q, FrameRate).q,
              frame_nr |-> PyDivMod(full.q, FrameRate).r, extra |-> full.r]

StreamIdle ==
    /\ s_pc = "idle"
    /\ s_sample_rate = None
    /\ s_spf = 1
    /\ s_frame_nr0 = 0
    /\ s_offset = 0
    /\ s_set = None
    /\ s_info = None

\* before __init__: the stream has no attributes yet
StreamInit ==
    /\ s_pc = "new"
    /\ s_sample_rate = None
    /\ s_spf = 1
    /\ s_frame_nr0 = 0
    /\ s_offset = 0
    /\ s_set = None
    /\ s_info = None

\* __init__(fh_raw, header0, ..., samples_per_frame, sample_rate): raises
\* what the sample_rate setter raises
StreamConstruct(nr0, spf, rate) ==
    LET r == SetSampleRate(None, rate)
    IN  /\ s_pc = "new"
        /\ s_pc' = IF r.err = "ok" THEN "made" ELSE "failed"
        /\ s_frame_nr0' = nr0
        /\ s_spf' = spf
        /\ s_sample_rate' = r.val
        /\ s_offset' = 0
        /\ s_set' = Some([rate |-> rate, prev |-> None, err |-> r.err])
        /\ s_info' = None
        /\ UNCHANGED <<pvars, dvars, rvars, wvars, hvars, ovars>>

\* sample_rate = rate
StreamSetSampleRate(rate) ==
    LET r == SetSampleRate(s_sample_rate, rate)
    IN  /\ s_pc = "made"
        /\ s_sample_rate' = r.val
        /\ s_set' = Some([rate |-> rate, prev |-> s_sample_rate,
                          err |-> r.err])
        /\ s_info' = None
        /\ UNCHANGED <<s_pc, s_spf, s_frame_nr0, s_offset>>
        /\ UNCHANGED <<pvars, dvars, rvars, wvars, hvars, ovars>>

\* seek(offset) with an integer offset and the default whence
StreamSeek(offset) ==
    /\ s_pc = "made"
    /\ s_offset' = offset
    /\ s_set' = None
    /\ s_info' = None
    /\ UNCHANGED <<s_pc, s_sample_rate, s_spf, s_frame_nr0>>
    /\ UNCHANGED <<pvars, dvars, rvars, wvars, hvars, ovars>>

\* _frame_info()
StreamFrameInfo ==
    /\ s_pc = "made"
    /\ s_info = None
    /\ s_info' = Some(FrameInfo)
    /\ s_set' = None
    /\ UNCHANGED <<s_pc, s_sample_rate, s_spf, s_frame_nr0, s_offset>>
    /\ UNCHANGED <<pvars, dvars, rvars, wvars, hvars, ovars>>

StreamNext ==
    \/ /\ s_pc = "new"
       /\ \E nr0 \in 0..MaxNr, spf \in 1..MaxSpf, rate \in GivenRates :
             StreamConstruct(nr0, spf, rate)
    \/ /\ s_pc = "made"
       /\ \E rate \in GivenRates : StreamSetSampleRate(rate)
    \/ /\ s_pc = "made"
       /\ \E offset \in (0 - MaxOffset)..MaxOffset : StreamSeek(offset)
    \/ StreamFrameInfo

\* C22: in every state of a stream the sample rate is strictly positive:
\* constructing a stream with a zero or negative rate, or assigning one to
\* sample_rate, is rejected and leaves any previous rate in place
C22_SampleRatePositive ==
    /\ s_pc = "made" => s_sample_rate.value > 0
    /\ (s_set # None /\ s_set[1].rate.value <= 0) =>
           /\ s_set[1].err # "ok"
           /\ s_pc = "made" => s_sample_rate = s_set[1].prev

\* C25: for any integer offset, negative ones included, and a frame rate
\* of at least 1, _frame_info returns extra within a frame, frame_nr within
\* a second, and the three recompose to offset + header0.frame_nr * spf
C25_FrameInfoDecomposes ==
    (s_info # None /\ s_spf >= 1
        /\ RoundHalfEven(s_sample_rate.value, s_spf) >= 1) =>
        LET i == s_info[1]
            framerate == RoundHalfEven(s_sample_rate.value, s_spf)
        IN  /\ i.err = "ok"
            /\ 0 <= i.extra /\ i.extra < s_spf
            /\ 0 <= i.frame_nr /\ i.frame_nr < framerate
            /\ (i.dt * framerate + i.frame_nr) * s_spf + i.extra
                   = s_offset + s_frame_nr0 * s_spf

\* _frame_info at a negative offset that is not on a frame boundary, before
\* the second of frame 0
C25_Witness ==
    /\ s_info # None
    /\ s_info[1].err = "ok"
    /\ RoundHalfEven(s_sample_rate.value, s_spf) >= 2
    /\ s_offset + s_frame_nr0 * s_spf < 0
    /\ s_info[1].dt < 0
    /\ s_info[1].frame_nr > 0
    /\ s_info[1].extra > 0

vars == <<pvars, dvars, rvars, wvars, hvars, ovars, svars>>

InitPayload == PayloadInit /\ RateIdle /\ ReaderIdle /\ CloseIdle /\ ShapeIdle
    /\ OpenerIdle /\ StreamIdle

SpecPayload == InitPayload /\ [][PayloadNext]_vars

InitLayout == LayoutInit /\ RateIdle /\ ReaderIdle /\ CloseIdle /\ ShapeIdle
    /\ OpenerIdle /\ StreamIdle

SpecLayout == InitLayout /\ [][PayloadNext]_vars

InitCodec == CodecInit /\ RateIdle /\ ReaderIdle /\ CloseIdle /\ ShapeIdle
    /\ OpenerIdle /\ StreamIdle

SpecCodec == InitCodec /\ [][CodecNext]_vars

InitRate == RateInit /\ PayloadIdle /\ ReaderIdle /\ CloseIdle /\ ShapeIdle
    /\ OpenerIdle /\ StreamIdle

SpecRate == InitRate /\ [][RateNext]_vars

InitScan == ScanInit /\ PayloadIdle /\ ReaderIdle /\ CloseIdle /\ ShapeIdle
    /\ OpenerIdle /\ StreamIdle

SpecScan == InitScan /\ [][RateNext]_vars

\* _get_frame_rate runs on until it returns or raises
SpecScanFair == SpecScan /\ WF_vars(RateNext)

InitReader == ReaderInit /\ PayloadIdle /\ RateIdle /\ CloseIdle /\ ShapeIdle
    /\ OpenerIdle /\ StreamIdle

SpecReader == InitReader /\ [][ReaderNext]_vars

InitClose == CloseInit /\ PayloadIdle /\ RateIdle /\ ReaderIdle /\ ShapeIdle
    /\ OpenerIdle /\ StreamIdle

SpecClose == InitClose /\ [][CloseNext]_vars

SpecSize == InitReader /\ [][SizeNext]_vars

SpecRaw == InitReader /\ [][RawNext]_vars

InitShape == ShapeInit /\ PayloadIdle /\ RateIdle /\ ReaderIdle /\ CloseIdle
    /\ OpenerIdle /\ StreamIdle

SpecShape == InitShape /\ [][ShapeNext]_vars

InitOpener == OpenerInit /\ PayloadIdle /\ RateIdle /\ ReaderIdle /\ CloseIdle
    /\ ShapeIdle /\ StreamIdle

SpecOpener == InitOpener /\ [][OpenerNext]_vars

InitStream == StreamInit /\ PayloadIdle /\ RateIdle /\ ReaderIdle /\ CloseIdle
    /\ ShapeIdle /\ OpenerIdle

SpecStream == InitStream /\ [][StreamNext]_vars

====
